---------------------------- MODULE Spec2Model ----------------------------
(***************************************************************************)
(* MEVDashboard (src/static/app.js): the slot cache with de-duplicated     *)
(* fetching, the prefetcher, the visibility window, the playback clock and *)
(* the slot navigation, as one state machine.                              *)
(*                                                                         *)
(* JavaScript runs one callback at a time: an action of this module is one *)
(* macrotask (a click, a key, a timer callback, a network completion)      *)
(* together with every microtask continuation it runs, up to the next      *)
(* point where the code waits for the network or for a timer.              *)
(*                                                                         *)
(* Time is counted in tenths of a second (the 0.1 of the tick).            *)
(***************************************************************************)
EXTENDS Integers, Sequences, FiniteSets, Bags, TLC

\* ------------------------------------------------------------ bounds
\* Slots the user may navigate to are capped at MaxSlot (next() itself has
\* no upper bound in the code).
MaxSlot == 3
\* The slot /api/latest-slot answers with.
BootSlot == 2
\* Callers that may be parked at the same time on an in-flight slot.
MaxWaiters == 1
\* Longest snapshot drawn for the visibility window.
MaxBids == 2
\* Clicks and key presses in a run.
MaxUser == 2
\* Network requests that settle in a run (the others stay in flight).
MaxNet == 2
\* Ticks that count down in a run of Spec.
MaxTicks == 2
\* What is left of the countdown, in tenths, where a run of Spec that
\* starts late in a slot starts.
LateTimer == 2
\* Slot numbers the cache on its own is fed with.
CacheSlots == 21
\* How far, in tenths, the visibility window is followed.
VisHorizon == 60

\* The slot the ten-clicks navigation scenario starts from.
NavStart == 100

\* ------------------------------------------------- program constants
SLOT_SECONDS == 12
TICKS_PER_SECOND == 10
CACHE_LIMIT == 20
PREFETCH_COUNT == 5
REFRESH_EVERY == 10

FULL_TIMER == SLOT_SECONDS * TICKS_PER_SECOND

\* JavaScript's null (currentSlot before the bootstrap answers).
NULL == -1

\* ToNumber(null) = 0: null + i, null++.
Num(x) == IF x = NULL THEN 0 ELSE x

\* !x for a slot number: null and 0 are both falsy.
Falsy(x) == x = NULL \/ x = 0

VARIABLES
    currentSlot,      \* this.currentSlot
    maxAvailableSlot, \* this.maxAvailableSlot
    isPlaying,        \* this.isPlaying
    isTransitioning,  \* this.isTransitioning
    timerValue,       \* this.timerValue, in tenths
    elapsedTime,      \* this.elapsedTime, in tenths
    timerInterval,    \* this.timerInterval is set (an interval is running)
    allBidsData,      \* this.allBidsData
    bidsData,         \* this.bidsData
    slotCache,        \* this.slotCache: entries in insertion order
    pendingFetches,   \* this.pendingFetches
    status,           \* what updateStatus last wrote
    tasks,            \* suspended calls and scheduled timers (a bag)
    shownSlot,        \* history: the slot whose snapshot is in allBidsData
    prefetchLog,      \* history: the prefetchSlots call of the last step
    released,         \* history: waiters released, with their fetch's outcome
    nUser,            \* history: clicks and key presses so far
    nNet,             \* history: network requests settled so far
    nTick             \* history: ticks that counted down so far

vars == <<currentSlot, maxAvailableSlot, isPlaying, isTransitioning,
          timerValue, elapsedTime, timerInterval, allBidsData, bidsData,
          slotCache, pendingFetches, status, tasks, shownSlot, prefetchLog,
          released, nUser, nNet, nTick>>

\* ------------------------------------------------------ the data source
\* builder_label stands for the builder's identity (pubkey, label, colour).
Bid(off, val, win, label) ==
    [seconds_in_slot |-> off, value_eth |-> val, is_winner |-> win,
     builder_label |-> label]

\* What /api/slot/<s> answers when it answers: the bids of slot s.
BidsOf(s) ==
    CASE s % 3 = 0 -> << >>
      [] s % 3 = 1 -> << Bid(5, 1, FALSE, 1), Bid(20, 5, FALSE, 2), Bid(50, 2, FALSE, 3) >>
      [] OTHER     -> << Bid(5, 3, FALSE, 1), Bid(20, 3, TRUE, 2) >>

SnapshotOf(s) == [slot |-> s, bids |-> BidsOf(s)]

\* null / undefined where a snapshot is expected.
NullData == [slot |-> NULL, bids |-> << >>]

IsNull(d) == d.slot = NULL


\* ------------------------------------------------ the program's state
\* No prefetchSlots call.
NoPrefetch == [from |-> NULL, cachedAt |-> {}, pendingAt |-> {}, started |-> {}]

\* The state as one record, so that a handler is a function from state to
\* state and the calls it makes compose.
Now ==
    [currentSlot |-> currentSlot, maxAvailableSlot |-> maxAvailableSlot,
     isPlaying |-> isPlaying, isTransitioning |-> isTransitioning,
     timerValue |-> timerValue, elapsedTime |-> elapsedTime,
     timerInterval |-> timerInterval, allBidsData |-> allBidsData,
     bidsData |-> bidsData, slotCache |-> slotCache,
     pendingFetches |-> pendingFetches, status |-> status, tasks |-> tasks,
     shownSlot |-> shownSlot, prefetchLog |-> NoPrefetch,
     released |-> released, nUser |-> nUser, nNet |-> nNet,
     nTick |-> nTick]

Commit(r) ==
    /\ currentSlot' = r.currentSlot
    /\ maxAvailableSlot' = r.maxAvailableSlot
    /\ isPlaying' = r.isPlaying
    /\ isTransitioning' = r.isTransitioning
    /\ timerValue' = r.timerValue
    /\ elapsedTime' = r.elapsedTime
    /\ timerInterval' = r.timerInterval
    /\ allBidsData' = r.allBidsData
    /\ bidsData' = r.bidsData
    /\ slotCache' = r.slotCache
    /\ pendingFetches' = r.pendingFetches
    /\ status' = r.status
    /\ tasks' = r.tasks
    /\ shownSlot' = r.shownSlot
    /\ prefetchLog' = r.prefetchLog
    /\ released' = r.released
    /\ nUser' = r.nUser
    /\ nNet' = r.nNet
    /\ nTick' = r.nTick

\* A suspended call or a scheduled timer.
\*   kind "fetch":    fetchSlotData awaiting fetch(`/api/slot/<slot>`)
\*   kind "wait":     fetchSlotData polling the cache for a pending slot
\*   kind "waitDone": a poller that resolved, its 10 s timeout still scheduled
\*   kind "latest":   awaiting fetch('/api/latest-slot')
\*   kind "retry":    the 3 s retry timeout of fetchLatestSlot
\* kont is the caller that resumes on completion: "prefetch" (nobody),
\* "next" / "prev" / "tick" (loadSlotData under goToNextSlot, goToPrevSlot,
\* the interval callback), "init" / "retry" (loadSlotData under
\* fetchLatestSlot, called by init or by the retry timeout), "refresh"
\* (refreshMaxAvailableSlot).
\* out is history: for a poller, what became of the fetch it found pending.
Task(kind, slot, kont, out) == [kind |-> kind, slot |-> slot, kont |-> kont, out |-> out]

AddTask(r, t) == [r EXCEPT !.tasks = @ (+) SetToBag({t})]
DelTask(r, t) == [r EXCEPT !.tasks = @ (-) SetToBag({t})]

TaskSet == BagToSet(tasks)

\* How many tasks of a bag satisfy kind and slot.
CountKind(bag, kind, slot) ==
    LET S == {t \in BagToSet(bag) : t.kind = kind /\ t.slot = slot}
        RECURSIVE Sum(_)
        Sum(T) == IF T = {} THEN 0
                  ELSE LET t == CHOOSE x \in T : TRUE
                       IN CopiesIn(t, bag) + Sum(T \ {t})
    IN Sum(S)

\* Underlying network requests for `slot` in flight.
InFlight(bag, slot) == CountKind(bag, "fetch", slot)

NumWaiters(bag) ==
    LET S == {t \in BagToSet(bag) : t.kind = "wait"}
        RECURSIVE Sum(_)
        Sum(T) == IF T = {} THEN 0
                  ELSE LET t == CHOOSE x \in T : TRUE
                       IN CopiesIn(t, bag) + Sum(T \ {t})
    IN Sum(S)

\* --------------------------------------------------------- the cache
CacheKeys(cache) == {cache[i].key : i \in 1..Len(cache)}

\* Map.get
MapGet(cache, slot) ==
    IF \E i \in 1..Len(cache) : cache[i].key = slot
    THEN cache[CHOOSE i \in 1..Len(cache) : cache[i].key = slot].val
    ELSE NullData

\* Map.set: a present key keeps its place, a new key goes last.
MapSet(cache, slot, data) ==
    IF \E i \in 1..Len(cache) : cache[i].key = slot
    THEN [i \in 1..Len(cache) |->
            IF cache[i].key = slot THEN [key |-> slot, val |-> data] ELSE cache[i]]
    ELSE Append(cache, [key |-> slot, val |-> data])

getCachedSlot(r, slot) == MapGet(r.slotCache, slot)

\* Mutants of setCachedSlot: evict the lowest slot number instead of the
\* first key; let the cache hold one entry more.
setCachedSlotLowest(r, slot, data) ==
    LET c1 == MapSet(r.slotCache, slot, data)
        low == CHOOSE k \in CacheKeys(c1) : \A j \in CacheKeys(c1) : k <= j
    IN [r EXCEPT !.slotCache =
            IF Len(c1) > CACHE_LIMIT
            THEN SelectSeq(c1, LAMBDA e : e.key # low)
            ELSE c1]

setCachedSlotOneMore(r, slot, data) ==
    LET c1 == MapSet(r.slotCache, slot, data)
    IN [r EXCEPT !.slotCache =
            IF Len(c1) > CACHE_LIMIT + 1 THEN Tail(c1) ELSE c1]

setCachedSlot(r, slot, data) ==
    LET c1 == MapSet(r.slotCache, slot, data)
    IN [r EXCEPT !.slotCache =
            IF Len(c1) > CACHE_LIMIT THEN Tail(c1) ELSE c1]

\* ------------------------------------------------ the visibility window
\* Mutant of updateVisibleBids: a bid arriving exactly now is not shown.
updateVisibleBidsStrict(r) ==
    [r EXCEPT !.bidsData =
        SelectSeq(r.allBidsData, LAMBDA bid : bid.seconds_in_slot < r.elapsedTime)]

updateVisibleBids(r) ==
    [r EXCEPT !.bidsData =
        SelectSeq(r.allBidsData, LAMBDA bid : bid.seconds_in_slot <= r.elapsedTime)]

\* Array.prototype.find: the first element flagged is_winner, or none.
FindWinner(bids) ==
    IF \E i \in 1..Len(bids) : bids[i].is_winner
    THEN LET i == CHOOSE k \in 1..Len(bids) :
                    /\ bids[k].is_winner
                    /\ \A j \in 1..(k - 1) : ~bids[j].is_winner
         IN <<bids[i]>>
    ELSE << >>

\* Array.prototype.reduce without an initial value, on a non-empty array.
RECURSIVE ReduceMax(_, _, _)
ReduceMax(bids, i, max) ==
    IF i > Len(bids) THEN max
    ELSE ReduceMax(bids, i + 1,
                   IF bids[i].value_eth > max.value_eth THEN bids[i] ELSE max)

RECURSIVE ReduceMaxLast(_, _, _)
ReduceMaxLast(bids, i, max) ==
    IF i > Len(bids) THEN max
    ELSE ReduceMaxLast(bids, i + 1,
                       IF bids[i].value_eth >= max.value_eth THEN bids[i] ELSE max)

\* Mutants of updateWinningBuilder: a tie goes to the later bid; the leading
\* bid is shown although the delivered one is visible.
updateWinningBuilderLast(bids) ==
    LET deliveredBid == FindWinner(bids)
    IN IF Len(bids) = 0 THEN [label |-> "Leading", bid |-> << >>]
       ELSE IF deliveredBid # << >>
            THEN [label |-> "Delivered", bid |-> deliveredBid]
            ELSE [label |-> "Leading", bid |-> <<ReduceMaxLast(bids, 2, bids[1])>>]

updateWinningBuilderLeading(bids) ==
    IF Len(bids) = 0 THEN [label |-> "Leading", bid |-> << >>]
    ELSE [label |-> "Leading", bid |-> <<ReduceMax(bids, 2, bids[1])>>]

\* What the winning-builder panel shows for the visible bids: its label and
\* the bid whose builder it names (none: "--").
updateWinningBuilder(bids) ==
    LET deliveredBid == FindWinner(bids)
    IN IF Len(bids) = 0 THEN [label |-> "Leading", bid |-> << >>]
       ELSE IF deliveredBid # << >>
            THEN [label |-> "Delivered", bid |-> deliveredBid]
            ELSE [label |-> "Leading", bid |-> <<ReduceMax(bids, 2, bids[1])>>]


\* ------------------------------------------------ fetching and prefetch
\* The result of a call that may suspend: the state it leaves, whether it
\* returned without waiting, and the value it returned if so.
Ret(r, done, data) == [st |-> r, done |-> done, data |-> data]

\* Mutant of fetchSlotData: the pending registry is not consulted.
fetchSlotDataNoDedup(r, slot, kont) ==
    LET cached == getCachedSlot(r, slot)
    IN IF ~IsNull(cached) THEN Ret(r, TRUE, cached)
       ELSE Ret(AddTask([r EXCEPT !.pendingFetches = @ \cup {slot}],
                        Task("fetch", slot, kont, "-")),
                FALSE, NullData)

\* fetchSlotData up to its first suspension: a cache hit returns at once; a
\* pending slot parks the caller on a poll of the cache; otherwise the slot
\* is marked pending and the request is issued.
fetchSlotData(r, slot, kont) ==
    LET cached == getCachedSlot(r, slot)
    IN IF ~IsNull(cached) THEN Ret(r, TRUE, cached)
       ELSE IF slot \in r.pendingFetches
            THEN Ret(AddTask(r, Task("wait", slot, kont, "inflight")),
                     FALSE, NullData)
            ELSE Ret(AddTask([r EXCEPT !.pendingFetches = @ \cup {slot}],
                             Task("fetch", slot, kont, "-")),
                     FALSE, NullData)

\* The slots a bag of tasks holds more requests for than another.
Started(before, after) ==
    {t.slot : t \in {x \in BagToSet(after) :
                        /\ x.kind = "fetch"
                        /\ InFlight(after, x.slot) > InFlight(before, x.slot)}}

\* slotsToFetch.forEach(slot => this.fetchSlotData(slot).catch(() => {}))
RECURSIVE FetchEach(_, _)
FetchEach(r, slots) ==
    IF slots = << >> THEN r
    ELSE FetchEach(fetchSlotData(r, Head(slots), "prefetch").st, Tail(slots))

\* The loop of prefetchSlots: slotsToFetch for i = from .. to.
RECURSIVE SlotsToFetch(_, _, _, _)
SlotsToFetch(r, startSlot, i, to) ==
    IF i > to THEN << >>
    ELSE LET slot == Num(startSlot) + i
             rest == SlotsToFetch(r, startSlot, i + 1, to)
         IN IF IsNull(getCachedSlot(r, slot)) /\ slot \notin r.pendingFetches
            THEN <<slot>> \o rest
            ELSE rest

LogPrefetch(r, startSlot, r2) ==
    [r2 EXCEPT !.prefetchLog =
        [from |-> Num(startSlot), cachedAt |-> CacheKeys(r.slotCache),
         pendingAt |-> r.pendingFetches,
         started |-> Started(r.tasks, r2.tasks)]]

\* Mutants of prefetchSlots: the window starts at the slot itself; the
\* pending registry is not consulted when the window is filtered.
prefetchSlotsFromZero(r, startSlot) ==
    LogPrefetch(r, startSlot,
                FetchEach(r, SlotsToFetch(r, startSlot, 0, PREFETCH_COUNT)))

prefetchSlots(r, startSlot) ==
    LogPrefetch(r, startSlot,
                FetchEach(r, SlotsToFetch(r, startSlot, 1, PREFETCH_COUNT)))

\* ------------------------------------------------------- display, load
SetStatus(r, cat, text) ==
    [r EXCEPT !.status = [cat |-> cat, text |-> text, slot |-> r.currentSlot]]

displaySlotData(r, data) ==
    updateVisibleBids([r EXCEPT !.allBidsData = data.bids,
                                !.shownSlot = data.slot,
                                !.elapsedTime = 0])

\* loadSlotData from the return of `await this.fetchSlotData(...)` on.
loadResume(r, data) ==
    LET r1 == IF ~IsNull(data)
              THEN SetStatus(displaySlotData(r, data), "connected", "loaded")
              ELSE SetStatus(r, "error", "failed")
    IN prefetchSlots(r1, r1.currentSlot)

\* loadSlotData up to its suspension, if any.
loadSlotData(r, kont) ==
    IF Falsy(r.currentSlot) THEN Ret(r, TRUE, NullData)
    ELSE LET cached == getCachedSlot(r, r.currentSlot)
         IN IF ~IsNull(cached)
            THEN Ret(prefetchSlots(SetStatus(displaySlotData(r, cached),
                                             "connected", "cached"),
                                   r.currentSlot),
                     TRUE, NullData)
            ELSE LET f == fetchSlotData(SetStatus(r, "connected", "loading"),
                                        r.currentSlot, kont)
                 IN IF f.done THEN Ret(loadResume(f.st, f.data), TRUE, NullData)
                    ELSE Ret(f.st, FALSE, NullData)

\* ------------------------------------------------------------ the clock
startTimer(r) ==
    [r EXCEPT !.timerValue = FULL_TIMER, !.elapsedTime = 0,
              !.timerInterval = TRUE]

\* refreshMaxAvailableSlot up to its await.
refreshMaxAvailableSlot(r) == AddTask(r, Task("latest", 0, "refresh", "-"))

\* The tail of goToNextSlot.
refreshCheck(r) ==
    IF r.currentSlot % REFRESH_EVERY = 0 THEN refreshMaxAvailableSlot(r) ELSE r

\* Mutant of afterLoad: the interval callback does not clear isTransitioning.
afterLoadStuck(r, kont) ==
    CASE kont = "next"  -> refreshCheck(r)
      [] kont = "tick"  -> refreshCheck(r)
      [] kont = "init"  -> startTimer(prefetchSlots(r, r.currentSlot))
      [] kont = "retry" -> prefetchSlots(r, r.currentSlot)
      [] OTHER          -> r

\* What the caller of loadSlotData does once it has returned.
afterLoad(r, kont) ==
    CASE kont = "next"  -> refreshCheck(r)
      [] kont = "tick"  -> [refreshCheck(r) EXCEPT !.isTransitioning = FALSE]
      [] kont = "init"  -> startTimer(prefetchSlots(r, r.currentSlot))
      [] kont = "retry" -> prefetchSlots(r, r.currentSlot)
      [] OTHER          -> r

goToNextSlot(r, kont) ==
    LET l == loadSlotData([r EXCEPT !.currentSlot = Num(@) + 1,
                                    !.timerValue = FULL_TIMER,
                                    !.elapsedTime = 0], kont)
    IN IF l.done THEN afterLoad(l.st, kont) ELSE l.st

\* Mutant of goToPrevSlot: the floor is tested with >= instead of >.
goToPrevSlotNoFloor(r) ==
    IF r.currentSlot >= 0
    THEN loadSlotData([r EXCEPT !.currentSlot = @ - 1,
                                !.timerValue = FULL_TIMER,
                                !.elapsedTime = 0], "prev").st
    ELSE r

goToPrevSlot(r) ==
    IF r.currentSlot > 0
    THEN loadSlotData([r EXCEPT !.currentSlot = @ - 1,
                                !.timerValue = FULL_TIMER,
                                !.elapsedTime = 0], "prev").st
    ELSE r


\* Mutant of the interval callback: it advances while an advance is under way.
tickNoGuard(r) ==
    IF ~r.isPlaying THEN r
    ELSE LET r1 == updateVisibleBids([r EXCEPT !.timerValue = @ - 1,
                                               !.elapsedTime = @ + 1])
         IN IF r1.timerValue <= 0
            THEN goToNextSlot([r1 EXCEPT !.isTransitioning = TRUE], "tick")
            ELSE r1

\* Mutant of the interval callback: the advance waits for a negative value.
tickLate(r) ==
    IF ~r.isPlaying \/ r.isTransitioning THEN r
    ELSE LET r1 == updateVisibleBids([r EXCEPT !.timerValue = @ - 1,
                                               !.elapsedTime = @ + 1])
         IN IF r1.timerValue < 0
            THEN goToNextSlot([r1 EXCEPT !.isTransitioning = TRUE], "tick")
            ELSE r1

\* Mutant of the interval callback: it counts down while playback is paused.
tickWhilePaused(r) ==
    IF r.isTransitioning THEN r
    ELSE LET r1 == updateVisibleBids([r EXCEPT !.timerValue = @ - 1,
                                               !.elapsedTime = @ + 1])
         IN IF r1.timerValue <= 0
            THEN goToNextSlot([r1 EXCEPT !.isTransitioning = TRUE], "tick")
            ELSE r1

\* The interval callback of startTimer.
tick(r) ==
    IF ~r.isPlaying \/ r.isTransitioning THEN r
    ELSE LET r1 == updateVisibleBids([r EXCEPT !.timerValue = @ - 1,
                                               !.elapsedTime = @ + 1])
         IN IF r1.timerValue <= 0
            THEN goToNextSlot([r1 EXCEPT !.isTransitioning = TRUE], "tick")
            ELSE r1

\* Mutant of togglePlayPause: resuming continues the countdown.
togglePlayPauseContinue(r) ==
    LET r1 == [r EXCEPT !.isPlaying = ~@]
    IN IF r1.isPlaying THEN prefetchSlots(r1, r1.currentSlot) ELSE r1

togglePlayPause(r) ==
    LET r1 == [r EXCEPT !.isPlaying = ~@]
    IN IF r1.isPlaying THEN prefetchSlots(startTimer(r1), r1.currentSlot) ELSE r1

\* ---------------------------------------------------------- completions
\* History: the pollers and the released callers that found `slot` pending
\* learn what became of that fetch.
SumCopies(bag, S) ==
    LET RECURSIVE Sum(_)
        Sum(T) == IF T = {} THEN 0
                  ELSE LET t == CHOOSE x \in T : TRUE
                       IN CopiesIn(t, bag) + Sum(T \ {t})
    IN Sum(S)

NoteOutcome(r, slot, outcome) ==
    LET f(t) == IF t.slot = slot /\ t.out = "inflight"
                THEN [t EXCEPT !.out = outcome] ELSE t
        S == BagToSet(r.tasks)
    IN [r EXCEPT
          !.tasks = [u \in {f(t) : t \in S} |->
                        SumCopies(r.tasks, {t \in S : f(t) = u})],
          !.released = {f(w) : w \in r.released}]

\* What resumes when a fetchSlotData call returns `data` to its caller.
resume(r, kont, data) ==
    IF kont = "prefetch" THEN r ELSE afterLoad(loadResume(r, data), kont)

\* Mutant of fetchDone: the pending mark is cleared on success only.
fetchDoneNoFinally(r, t, ok) ==
    LET data == IF ok THEN SnapshotOf(t.slot) ELSE NullData
        r1 == IF ok THEN setCachedSlot(DelTask(r, t), t.slot, data)
              ELSE DelTask(r, t)
        r2 == IF ok THEN [r1 EXCEPT !.pendingFetches = @ \ {t.slot}] ELSE r1
        r3 == NoteOutcome(r2, t.slot, IF ok THEN "data" ELSE "null")
    IN resume(r3, t.kont, data)

\* fetch(`/api/slot/<slot>`) settles: fetchSlotData from its await on.
fetchDone(r, t, ok) ==
    LET data == IF ok THEN SnapshotOf(t.slot) ELSE NullData
        r1 == IF ok THEN setCachedSlot(DelTask(r, t), t.slot, data)
              ELSE DelTask(r, t)
        r2 == [r1 EXCEPT !.pendingFetches = @ \ {t.slot}]
        r3 == NoteOutcome(r2, t.slot, IF ok THEN "data" ELSE "null")
    IN resume(r3, t.kont, data)

Release(r, t, result) ==
    [r EXCEPT !.released = @ \cup {[slot |-> t.slot, out |-> t.out,
                                    result |-> result]}]

\* Mutant of pollCache: the poll that finds the snapshot resolves the
\* caller but is not cleared.
pollCacheNoClear(r, t) ==
    LET data == getCachedSlot(r, t.slot)
    IN IF ~IsNull(data)
       THEN resume(Release(r, t, "data"), t.kont, data)
       ELSE r

\* The checkCache interval of a parked caller fires.
pollCache(r, t) ==
    LET data == getCachedSlot(r, t.slot)
    IN IF ~IsNull(data)
       THEN resume(Release(AddTask(DelTask(r, t),
                                   Task("waitDone", t.slot, "-", "-")),
                           t, "data"),
                   t.kont, data)
       ELSE r

\* The 10 s timeout of a parked caller fires: resolve(null), which does
\* nothing once the promise is resolved.
waitTimeout(r, t) ==
    IF t.kind = "wait"
    THEN resume(Release(DelTask(r, t), t, "null"), t.kont, NullData)
    ELSE DelTask(r, t)

\* fetchLatestSlot up to its await.
fetchLatestSlot(r, kont) == AddTask(r, Task("latest", 0, kont, "-"))

\* Mutant of latestDone: a failed bootstrap attempt schedules no retry.
latestDoneNoRetry(r, t, ok) ==
    LET r0 == DelTask(r, t)
    IN IF t.kont = "refresh"
       THEN (IF ok THEN [r0 EXCEPT !.maxAvailableSlot = BootSlot] ELSE r0)
       ELSE IF ok
            THEN LET r1 == [r0 EXCEPT !.maxAvailableSlot = BootSlot,
                                      !.currentSlot = BootSlot]
                     l == loadSlotData(SetStatus(r1, "connected", "connected"),
                                       t.kont)
                 IN IF l.done THEN afterLoad(l.st, t.kont) ELSE l.st
            ELSE LET r1 == SetStatus(r0, "error", "connection failed")
                 IN IF t.kont = "init" THEN startTimer(r1) ELSE r1

\* fetch('/api/latest-slot') settles, in fetchLatestSlot (then init goes on
\* to startTimer) or in refreshMaxAvailableSlot.
latestDone(r, t, ok) ==
    LET r0 == DelTask(r, t)
    IN IF t.kont = "refresh"
       THEN (IF ok THEN [r0 EXCEPT !.maxAvailableSlot = BootSlot] ELSE r0)
       ELSE IF ok
            THEN LET r1 == [r0 EXCEPT !.maxAvailableSlot = BootSlot,
                                      !.currentSlot = BootSlot]
                     l == loadSlotData(SetStatus(r1, "connected", "connected"),
                                       t.kont)
                 IN IF l.done THEN afterLoad(l.st, t.kont) ELSE l.st
            ELSE LET r1 == AddTask(SetStatus(r0, "error", "connection failed"),
                                   Task("retry", 0, "-", "-"))
                 IN IF t.kont = "init" THEN startTimer(r1) ELSE r1

\* ------------------------------------------------------------- actions
WaitersOk(r) == NumWaiters(r.tasks) <= MaxWaiters

User(r) == [r EXCEPT !.nUser = @ + 1]
Net(r) == [r EXCEPT !.nNet = @ + 1]

\* The constructor has run: init() is suspended in fetchLatestSlot.
InitBoot ==
    /\ currentSlot = NULL
    /\ maxAvailableSlot = NULL
    /\ isPlaying = TRUE
    /\ isTransitioning = FALSE
    /\ timerValue = FULL_TIMER
    /\ elapsedTime = 0
    /\ timerInterval = FALSE
    /\ allBidsData = << >>
    /\ bidsData = << >>
    /\ slotCache = << >>
    /\ pendingFetches = {}
    /\ status = [cat |-> "none", text |-> "", slot |-> NULL]
    /\ tasks = SetToBag({Task("latest", 0, "init", "-")})
    /\ shownSlot = NULL
    /\ prefetchLog = NoPrefetch
    /\ released = {}
    /\ nUser = 0
    /\ nNet = 0
    /\ nTick = 0

\* Late in the first slot: the bootstrap answered BootSlot, its snapshot was
\* loaded and shown, init() started the timer, and FULL_TIMER - LateTimer
\* ticks have counted down. Of the prefetches the load started, those of the
\* slots LateInFlight are still in flight and the others have succeeded, in
\* slot order.
LateInFlight == (BootSlot + 1)..(MaxSlot + 1)
LateCached == (MaxSlot + 2)..(BootSlot + PREFETCH_COUNT)

InitLate ==
    /\ currentSlot = BootSlot
    /\ maxAvailableSlot = BootSlot
    /\ isPlaying = TRUE
    /\ isTransitioning = FALSE
    /\ timerValue = LateTimer
    /\ elapsedTime = FULL_TIMER - LateTimer
    /\ timerInterval = TRUE
    /\ allBidsData = BidsOf(BootSlot)
    /\ bidsData = SelectSeq(BidsOf(BootSlot),
                            LAMBDA bid : bid.seconds_in_slot <= FULL_TIMER - LateTimer)
    /\ slotCache = <<[key |-> BootSlot, val |-> SnapshotOf(BootSlot)]>>
                    \o [i \in 1..Cardinality(LateCached) |->
                            [key |-> MaxSlot + 1 + i,
                             val |-> SnapshotOf(MaxSlot + 1 + i)]]
    /\ pendingFetches = LateInFlight
    /\ status = [cat |-> "connected", text |-> "loaded", slot |-> BootSlot]
    /\ tasks = SetToBag({Task("fetch", s, "prefetch", "-") : s \in LateInFlight})
    /\ shownSlot = BootSlot
    /\ prefetchLog = NoPrefetch
    /\ released = {}
    /\ nUser = 0
    /\ nNet = 0
    /\ nTick = 0

Init == InitBoot \/ InitLate

\* A click on next / ArrowRight.
UserNext ==
    /\ nUser < MaxUser
    /\ Num(currentSlot) < MaxSlot
    /\ LET r == goToNextSlot(User(Now), "next") IN WaitersOk(r) /\ Commit(r)

\* A click on prev / ArrowLeft.
UserPrev ==
    /\ nUser < MaxUser \/ ~(currentSlot > 0)
    /\ LET r == goToPrevSlot(IF currentSlot > 0 THEN User(Now) ELSE Now)
       IN WaitersOk(r) /\ Commit(r)

\* A click on play/pause / Space.
UserToggle ==
    /\ nUser < MaxUser
    /\ Commit(togglePlayPause(User(Now)))

\* The 100 ms interval fires.
Counts == isPlaying /\ ~isTransitioning

ClockTick ==
    /\ timerInterval
    /\ Num(currentSlot) < MaxSlot \/ timerValue > 1 \/ ~Counts
    /\ LET r == tick([Now EXCEPT !.nTick = IF Counts THEN @ + 1 ELSE @])
       IN WaitersOk(r) /\ Commit(r)

Tick ==
    /\ timerInterval
    /\ Num(currentSlot) < MaxSlot \/ timerValue > 1 \/ ~Counts
    /\ nTick < MaxTicks \/ ~Counts
    /\ LET r == tick([Now EXCEPT !.nTick = IF Counts THEN @ + 1 ELSE @])
       IN WaitersOk(r) /\ Commit(r)

FetchDone ==
    \E t \in TaskSet : \E ok \in BOOLEAN :
        /\ t.kind = "fetch"
        /\ nNet < MaxNet
        /\ Commit(fetchDone(Net(Now), t, ok))

WaitPoll ==
    \E t \in TaskSet :
        /\ t.kind = "wait"
        /\ Commit(pollCache(Now, t))

WaitTimeout ==
    \E t \in TaskSet :
        /\ t.kind \in {"wait", "waitDone"}
        /\ Commit(waitTimeout(Now, t))

LatestDone ==
    \E t \in TaskSet : \E ok \in BOOLEAN :
        /\ t.kind = "latest"
        /\ nNet < MaxNet
        /\ LET r == latestDone(Net(Now), t, ok) IN WaitersOk(r) /\ Commit(r)

\* The 3 s retry timeout of fetchLatestSlot fires.
RetryFire ==
    \E t \in TaskSet :
        /\ t.kind = "retry"
        /\ Commit(fetchLatestSlot(DelTask(Now, t), "retry"))

Next ==
    \/ UserNext
    \/ UserPrev
    \/ UserToggle
    \/ Tick
    \/ FetchDone
    \/ WaitPoll
    \/ WaitTimeout
    \/ LatestDone
    \/ RetryFire

Spec == Init /\ [][Next]_vars


\* ----------------------------------- the clock alone: no click, no key
NextClock ==
    \/ ClockTick
    \/ FetchDone
    \/ WaitPoll
    \/ WaitTimeout
    \/ LatestDone
    \/ RetryFire

SpecClock == InitBoot /\ [][NextClock]_vars

\* ------------------------------------------------- the cache on its own
\* setCachedSlot and getCachedSlot applied to a cache that starts empty.
\* Slots are inserted as fetches of increasing slots complete: in order, or
\* a slot right after its successor (the two responses crossed).
MaxKey(cache) ==
    IF cache = << >> THEN 0
    ELSE CHOOSE k \in CacheKeys(cache) : \A j \in CacheKeys(cache) : j <= k

InsertCandidates(cache) ==
    LET m == MaxKey(cache)
    IN IF m >= 2 /\ cache[Len(cache)].key = m /\ m - 1 \notin CacheKeys(cache)
                /\ (Len(cache) = 1 \/ cache[Len(cache) - 1].key # m - 1)
       THEN {m - 1}
       ELSE {s \in {m + 1, m + 2} : s <= CacheSlots}

\* What a read leaves of the state: getCachedSlot only reads.
getCachedSlotEffect(r, slot) == r

InitCache == InitBoot

CacheInsert ==
    \E s \in InsertCandidates(slotCache) :
        Commit(setCachedSlot(Now, s, SnapshotOf(s)))

CacheGet ==
    \E s \in 1..CacheSlots : Commit(getCachedSlotEffect(Now, s))

NextCache ==
    \/ CacheInsert
    \/ CacheGet

SpecCache == InitCache /\ [][NextCache]_vars

\* ------------------------------------- the visibility window on its own
\* updateVisibleBids and updateWinningBuilder applied, tick after tick, to
\* every snapshot of up to MaxBids bids, and to the scenario of three bids
\* at 0.5 s, 2.0 s and 5.0 s worth 0.01, 0.05 and 0.02.
VisOffsets == {0, 5, 20, 50}
VisValues == {1, 2, 5}

VisChoices ==
    [seconds_in_slot : VisOffsets, value_eth : VisValues, is_winner : BOOLEAN]

Scenario == << Bid(5, 1, FALSE, 1), Bid(20, 5, FALSE, 2), Bid(50, 2, FALSE, 3) >>

VisSnapshots ==
    {Scenario} \cup
    UNION {{[i \in 1..n |-> Bid(f[i].seconds_in_slot, f[i].value_eth,
                                f[i].is_winner, i)] :
                f \in [1..n -> VisChoices]} : n \in 0..MaxBids}

\* A snapshot has just been displayed (displaySlotData) and the clock runs.
InitVis ==
    /\ currentSlot = BootSlot
    /\ maxAvailableSlot = BootSlot
    /\ isPlaying = TRUE
    /\ isTransitioning = FALSE
    /\ timerValue = FULL_TIMER
    /\ timerInterval = TRUE
    /\ slotCache = << >>
    /\ pendingFetches = {}
    /\ status = [cat |-> "connected", text |-> "loaded", slot |-> BootSlot]
    /\ tasks = EmptyBag
    /\ prefetchLog = NoPrefetch
    /\ released = {}
    /\ nUser = 0
    /\ nNet = 0
    /\ nTick = 0
    /\ \E bids \in VisSnapshots :
          LET r == displaySlotData([allBidsData |-> << >>, bidsData |-> << >>,
                                    shownSlot |-> NULL, elapsedTime |-> 0],
                                   [slot |-> BootSlot, bids |-> bids])
          IN /\ allBidsData = r.allBidsData
             /\ bidsData = r.bidsData
             /\ shownSlot = r.shownSlot
             /\ elapsedTime = r.elapsedTime

VisTick ==
    /\ elapsedTime < VisHorizon
    /\ Commit(tick(Now))

NextVis == VisTick

SpecVis == InitVis /\ [][NextVis]_vars


\* ================================================================ claims
\* C1: for every slot, at most one network request is in flight at any time.
C1_OneRequestPerSlot ==
    \A t \in TaskSet : t.kind = "fetch" => InFlight(tasks, t.slot) <= 1

\* C1 witness: a caller is parked on a pending slot whose one request is in
\* flight.
C1_Witness ==
    \E t \in TaskSet : t.kind = "wait" /\ InFlight(tasks, t.slot) = 1

\* C2: a caller that found the slot pending receives what the fetch it
\* found pending delivered: the snapshot if that fetch succeeded, nothing if
\* it failed.
C2_SameOutcome ==
    \A w \in released : w.out # "inflight" => w.result = w.out


\* C3: the slot cache never holds more than CACHE_LIMIT entries.
C3_CacheBounded == Len(slotCache) <= CACHE_LIMIT

\* C3 witness: the cache is full after an insertion beyond its capacity.
C3_Witness ==
    Len(slotCache) = CACHE_LIMIT /\ MaxKey(slotCache) = CACHE_LIMIT + 1

\* C4: every change of the cache puts one new slot last; below capacity
\* nothing leaves, at capacity the first entry (the one inserted earliest)
\* leaves, and the others keep their order. A read changes nothing.
C4_FifoEviction ==
    [][slotCache' # slotCache =>
        LET old == slotCache
            new == slotCache'
            gone == Len(old) + 1 - Len(new)
        IN /\ Len(new) = IF Len(old) < CACHE_LIMIT THEN Len(old) + 1
                         ELSE CACHE_LIMIT
           /\ new[Len(new)].key \notin CacheKeys(old)
           /\ \A i \in 1..(Len(new) - 1) : new[i] = old[i + gone]]_vars

\* C4 witness: slots 1 .. CACHE_LIMIT + 1 were inserted in order; slot 1 is
\* gone, slots 2 .. CACHE_LIMIT + 1 are there.
C4_Witness ==
    /\ Len(slotCache) = CACHE_LIMIT
    /\ \A i \in 1..CACHE_LIMIT : slotCache[i].key = i + 1

\* C5: at most one timer-triggered advance is under way, isTransitioning is
\* true exactly while one is, and while it is true no step counts the clock
\* down.
NumTickAdvances ==
    SumCopies(tasks, {t \in TaskSet : t.kont = "tick"})

GuardState ==
    /\ NumTickAdvances <= 1
    /\ isTransitioning <=> NumTickAdvances = 1

C5_TransitionGuard ==
    /\ GuardState
    /\ [][/\ GuardState'
          /\ isTransitioning =>
                /\ timerValue' >= timerValue
                /\ elapsedTime' <= elapsedTime]_vars

\* C5 witness: an advance started by the timer is waiting for its slot while
\* the interval keeps firing.
C5_Witness ==
    isTransitioning /\ isPlaying /\ timerInterval /\ NumTickAdvances = 1

C7_ResumeRestarts ==
    [][(~isPlaying /\ isPlaying') =>
            (timerValue' = FULL_TIMER /\ elapsedTime' = 0)]_vars

\* C7 witness: playback was paused after a tick late in the slot and has
\* been resumed.
C7_Witness ==
    /\ isPlaying /\ nUser = 2 /\ nTick = 1
    /\ currentSlot = BootSlot /\ status.text = "loaded"
    /\ prefetchLog.from = BootSlot
    /\ timerValue = FULL_TIMER /\ elapsedTime = 0

\* C8: the visible bids are the bids of the snapshot that arrived by the
\* elapsed time, each once and in the snapshot's order; as time goes on the
\* visible bids of a snapshot only grow.
VisibleIdx ==
    {i \in 1..Len(allBidsData) : allBidsData[i].seconds_in_slot <= elapsedTime}

VisibleExact ==
    /\ Len(bidsData) = Cardinality(VisibleIdx)
    /\ \A k \in 1..Len(bidsData) :
          bidsData[k] = allBidsData[CHOOSE i \in VisibleIdx :
                            Cardinality({j \in VisibleIdx : j <= i}) = k]

C8_VisibleBids ==
    /\ VisibleExact
    /\ [][/\ VisibleExact'
          /\ (allBidsData' = allBidsData /\ elapsedTime' >= elapsedTime) =>
                \A k \in 1..Len(bidsData) :
                    \E m \in 1..Len(bidsData') : bidsData'[m] = bidsData[k]]_vars

\* C8 witness: of the three bids of the scenario, two are visible at 3.0 s.
C8_Witness ==
    allBidsData = Scenario /\ elapsedTime = 30 /\ Len(bidsData) = 2

\* C9: for visible bids, the panel names the first visible bid flagged as
\* winning if there is one, whatever its value; otherwise the first visible
\* bid of the highest value. In the scenario that is the bid worth 0.05 at
\* 3.0 s and at 6.0 s.
C9_WinningBuilder ==
    LET shown == updateWinningBuilder(bidsData)
        n == Len(bidsData)
    IN n > 0 =>
        /\ Len(shown.bid) = 1
        /\ \E i \in 1..n :
            /\ shown.bid[1] = bidsData[i]
            /\ IF \E j \in 1..n : bidsData[j].is_winner
               THEN /\ shown.label = "Delivered"
                    /\ bidsData[i].is_winner
                    /\ \A j \in 1..(i - 1) : ~bidsData[j].is_winner
               ELSE /\ shown.label = "Leading"
                    /\ \A j \in 1..n : bidsData[j].value_eth <= bidsData[i].value_eth
                    /\ \A j \in 1..(i - 1) :
                            bidsData[j].value_eth < bidsData[i].value_eth
        /\ (allBidsData = Scenario /\ elapsedTime \in {30, 60}) =>
                shown.bid[1].builder_label = 2

\* C9 witness: after 2.0 s or more, no winning bid is visible and two
\* visible bids tie for the highest value.
C9_Witness ==
    /\ elapsedTime >= 20
    /\ \A j \in 1..Len(bidsData) : ~bidsData[j].is_winner
    /\ \E i, j \in 1..Len(bidsData) :
          /\ i < j
          /\ bidsData[i].value_eth = bidsData[j].value_eth
          /\ \A k \in 1..Len(bidsData) :
                bidsData[k].value_eth <= bidsData[i].value_eth

\* C10: a prefetchSlots call starts a request for exactly the slots of
\* from+1 .. from+PREFETCH_COUNT that were neither cached nor pending when it
\* was called; and the failure of a prefetch request changes neither what is
\* displayed nor the status nor the playback state.
PrefetchExact ==
    prefetchLog.from # NULL =>
        prefetchLog.started =
            {s \in (prefetchLog.from + 1)..(prefetchLog.from + PREFETCH_COUNT) :
                s \notin prefetchLog.cachedAt /\ s \notin prefetchLog.pendingAt}

PrefetchFailed ==
    \E t \in TaskSet :
        /\ t.kind = "fetch" /\ t.kont = "prefetch"
        /\ CopiesIn(t, tasks') < CopiesIn(t, tasks)
        /\ t.slot \notin CacheKeys(slotCache')

C10_PrefetchWindow ==
    [][/\ PrefetchExact'
       /\ PrefetchFailed =>
            UNCHANGED <<currentSlot, allBidsData, bidsData, shownSlot, status,
                        elapsedTime, timerValue, isPlaying, isTransitioning>>]_vars

\* C10 witness: a prefetchSlots call found part of its window cached or
\* pending and started the rest.
C10_Witness ==
    /\ prefetchLog.from # NULL
    /\ prefetchLog.started # {}
    /\ \E s \in (prefetchLog.from + 1)..(prefetchLog.from + PREFETCH_COUNT) :
            s \in prefetchLog.cachedAt \cup prefetchLog.pendingAt

\* ---------------------------------------------------- parked callers
\* From late in the first slot, with user input, ticks and slot requests
\* within their budgets. Fairness: the 10 s timeout of a parked caller
\* fires (weak fairness of WaiterTimesOut, written with its enabling
\* condition HasWaiter).
HasWaiter == \E t \in TaskSet : t.kind = "wait"

WaiterTimesOut ==
    \E t \in TaskSet : t.kind = "wait" /\ Commit(waitTimeout(Now, t))

NextWait ==
    \/ UserNext
    \/ UserPrev
    \/ UserToggle
    \/ Tick
    \/ FetchDone
    \/ WaitPoll
    \/ WaitTimeout

SpecWait ==
    /\ InitLate
    /\ [][NextWait]_vars
    /\ <>[]HasWaiter => []<><<WaiterTimesOut>>_vars

\* Callers whose promise is resolved and whose 10 s timeout is still to fire.
NumResolved(bag) ==
    SumCopies(bag, {t \in BagToSet(bag) : t.kind = "waitDone"})

\* ------------------------------------------------------ the bootstrap
\* No user input and at most MaxTicks counted ticks; the bootstrap request may fail any number of times.
\* Fairness: the retry timeout fires, and if attempts keep being made the
\* data source answers one of them. The latter is strong fairness of
\* BootOk, written with its enabling condition AttemptInFlight.
AttemptInFlight ==
    \E t \in TaskSet : t.kind = "latest" /\ t.kont \in {"init", "retry"}

BootAnswer(ok) ==
    \E t \in TaskSet :
        /\ t.kind = "latest"
        /\ t.kont \in {"init", "retry"}
        /\ Commit(latestDone(Now, t, ok))

BootOk == BootAnswer(TRUE)
BootFail == BootAnswer(FALSE)

NextBoot ==
    \/ BootOk
    \/ BootFail
    \/ RetryFire
    \/ Tick
    \/ FetchDone

SpecBoot ==
    /\ InitBoot
    /\ [][NextBoot]_vars
    /\ WF_vars(RetryFire)
    /\ []<>AttemptInFlight => []<><<BootOk>>_vars

\* Bootstrap attempts under way: requests in flight plus retries scheduled.
BootAttempts ==
    SumCopies(tasks, {t \in TaskSet :
                        \/ t.kind = "retry"
                        \/ t.kind = "latest" /\ t.kont \in {"init", "retry"}})

\* ------------------------------------------- navigation from NavStart
\* The bootstrap answered NavStart, its snapshot was loaded and shown, the
\* prefetches of the next PREFETCH_COUNT slots are in flight, init() started
\* the timer and the user paused playback at once. The user then clicks next
\* up to REFRESH_EVERY times while up to MaxNet slot requests answer or
\* parked callers time out, in any order; the answers to the resync calls
\* stay outstanding, so the calls made are the "refresh" tasks.
InitNav ==
    /\ currentSlot = NavStart
    /\ maxAvailableSlot = NavStart
    /\ isPlaying = FALSE
    /\ isTransitioning = FALSE
    /\ timerValue = FULL_TIMER
    /\ elapsedTime = 0
    /\ timerInterval = TRUE
    /\ allBidsData = BidsOf(NavStart)
    /\ bidsData = SelectSeq(BidsOf(NavStart), LAMBDA bid : bid.seconds_in_slot <= 0)
    /\ slotCache = <<[key |-> NavStart, val |-> SnapshotOf(NavStart)]>>
    /\ pendingFetches = (NavStart + 1)..(NavStart + PREFETCH_COUNT)
    /\ status = [cat |-> "connected", text |-> "loaded", slot |-> NavStart]
    /\ tasks = SetToBag({Task("fetch", s, "prefetch", "-") :
                            s \in (NavStart + 1)..(NavStart + PREFETCH_COUNT)})
    /\ shownSlot = NavStart
    /\ prefetchLog = NoPrefetch
    /\ released = {}
    /\ nUser = 1
    /\ nNet = 0
    /\ nTick = 0

NavNext ==
    /\ currentSlot < NavStart + REFRESH_EVERY
    /\ Commit(goToNextSlot(Now, "next"))

NavTimeout ==
    \E t \in TaskSet :
        /\ t.kind \in {"wait", "waitDone"}
        /\ nNet < MaxNet
        /\ Commit(waitTimeout(Net(Now), t))

NextNav ==
    \/ NavNext
    \/ FetchDone
    \/ WaitPoll
    \/ NavTimeout

SpecNav == InitNav /\ [][NextNav]_vars

\* Resync calls made so far (none of them is answered under SpecNav).
RefreshCalls ==
    SumCopies(tasks, {t \in TaskSet : t.kind = "latest" /\ t.kont = "refresh"})

\* ------------------------------------------- timer-triggered advances
\* From late in the first slot: ticks and prefetch answers within their
\* budgets, play/pause clicks, and the load an advance is waiting for, which
\* returns whatever the budgets. Fairness: the request of that load is
\* answered or fails, and the 10 s timeout of that load fires when it is
\* parked on a pending slot (weak fairness of AdvanceReturns, written with
\* its enabling condition AdvanceWaiting).
AdvanceWaiting ==
    \E t \in TaskSet : t.kont = "tick" /\ t.kind \in {"fetch", "wait"}

AdvanceReturns ==
    \E t \in TaskSet :
        /\ t.kont = "tick"
        /\ \/ t.kind = "fetch" /\ \E ok \in BOOLEAN : Commit(fetchDone(Now, t, ok))
           \/ t.kind = "wait" /\ Commit(waitTimeout(Now, t))

NextAdvance ==
    \/ Tick
    \/ UserToggle
    \/ FetchDone
    \/ AdvanceReturns
    \/ WaitPoll
    \/ WaitTimeout

SpecAdvance ==
    /\ InitLate
    /\ [][NextAdvance]_vars
    /\ <>[]AdvanceWaiting => []<><<AdvanceReturns>>_vars

\* ================================================================ claims
\* C11: the current slot is never negative, and in every state where it is
\* 0 goToPrevSlot changes nothing: slot, elapsed, remaining, cache, pending
\* registry, bids and outstanding requests stay as they are.
C11_PrevAtZero ==
    /\ currentSlot = NULL \/ currentSlot >= 0
    /\ currentSlot = 0 =>
        LET r == goToPrevSlot(Now)
        IN /\ r.currentSlot = 0
           /\ r.elapsedTime = elapsedTime /\ r.timerValue = timerValue
           /\ r.slotCache = slotCache /\ r.pendingFetches = pendingFetches
           /\ r.allBidsData = allBidsData /\ r.bidsData = bidsData
           /\ r.tasks = tasks /\ r.status = status

\* C11 witness: previous() has brought the slot down to 0 and time has
\* passed there.
C11_Witness ==
    currentSlot = 0 /\ nUser >= 1 /\ elapsedTime > 0

\* C12: while next() is called ten times from slot NavStart, at most one
\* resync call is made, and none before the current slot is NavStart + 10.
C12_OneResync ==
    /\ RefreshCalls <= 1
    /\ RefreshCalls = 1 => currentSlot = NavStart + REFRESH_EVERY

\* C13: every click that changes the current slot to a slot >= 0 either
\* shows the new slot from the cache and calls prefetchSlots for it in that
\* step, or leaves a load of the new slot awaiting its snapshot.
C13_NavigationLoads ==
    [][(nUser' = nUser + 1 /\ currentSlot' # currentSlot /\ currentSlot' >= 0) =>
          \/ /\ shownSlot' = currentSlot'
             /\ prefetchLog'.from = currentSlot'
          \/ \E t \in BagToSet(tasks') :
                /\ t.kind \in {"fetch", "wait"}
                /\ t.kont \in {"next", "prev"}
                /\ t.slot = currentSlot']_vars

\* C14: a step in which the load of the current slot ends without a
\* snapshot (its request failed, or its wait for a pending request timed out
\* with nothing cached) leaves no bids held for display.
Calls(bag, t) ==
    SumCopies(bag, {u \in BagToSet(bag) :
                        u.kind = t.kind /\ u.slot = t.slot /\ u.kont = t.kont})

LoadFailed(t) ==
    /\ t.kind \in {"fetch", "wait"}
    /\ t.kont # "prefetch"
    /\ t.slot = currentSlot
    /\ currentSlot' = currentSlot
    /\ Calls(tasks', t) < Calls(tasks, t)
    /\ t.slot \notin CacheKeys(slotCache')

C14_FailedLoadIsEmpty ==
    [][(\E t \in TaskSet : LoadFailed(t)) =>
            (allBidsData' = << >> /\ bidsData' = << >>)]_vars

\* C15: until the bootstrap has succeeded exactly one attempt is under way
\* (a request in flight or a retry scheduled), afterwards none; the step in
\* which an attempt succeeds sets the current slot to the latest slot; and
\* if the data source eventually answers, the bootstrap eventually succeeds.
BootState ==
    BootAttempts = IF maxAvailableSlot = NULL THEN 1 ELSE 0

C15_BootstrapRetries ==
    /\ BootState
    /\ [][/\ BootState'
          /\ (maxAvailableSlot = NULL /\ maxAvailableSlot' # NULL) =>
                currentSlot' = BootSlot]_vars
    /\ <>(maxAvailableSlot = BootSlot)

\* C15 witness: after a failed attempt, the retry has been answered and the
\* load of the latest slot it started is awaiting its snapshot.
C15_Witness ==
    /\ currentSlot = BootSlot
    /\ maxAvailableSlot = BootSlot
    /\ \E t \in TaskSet : t.kont = "retry" /\ t.slot = BootSlot

\* C16: a caller parked on a pending slot is eventually released; a release
\* takes exactly one parked caller off, with the snapshot only if the slot is
\* in the cache and with null otherwise; once released its poll is gone, and
\* the timeout that fires later changes nothing.
ProgramVars ==
    <<currentSlot, maxAvailableSlot, isPlaying, isTransitioning, timerValue,
      elapsedTime, timerInterval, allBidsData, bidsData, slotCache,
      pendingFetches, status, shownSlot>>

ReleasedNow(t) ==
    t.kind = "wait" /\ Calls(tasks', t) < Calls(tasks, t)

Deliveries(rel) == {[slot |-> w.slot, result |-> w.result] : w \in rel}

C16_WaiterReleasedOnce ==
    /\ [][/\ \A t \in TaskSet : ReleasedNow(t) =>
                LET byPoll == NumResolved(tasks') = NumResolved(tasks) + 1
                IN /\ NumWaiters(tasks') = NumWaiters(tasks) - 1
                   /\ byPoll \/ NumResolved(tasks') = NumResolved(tasks)
                   /\ byPoll => t.slot \in CacheKeys(slotCache)
                   /\ [slot |-> t.slot,
                       result |-> IF byPoll THEN "data" ELSE "null"]
                        \in Deliveries(released')
          /\ Deliveries(released') # Deliveries(released) =>
                \E t \in TaskSet : ReleasedNow(t)
          /\ (NumWaiters(tasks') = NumWaiters(tasks)
                /\ NumResolved(tasks') < NumResolved(tasks)) =>
                    UNCHANGED <<ProgramVars, released>>]_vars
    /\ HasWaiter ~> ~HasWaiter

\* C16 witness: a parked caller has been released with the snapshot by its
\* poll, and its timeout has not fired yet.
C16_Witness ==
    /\ \E w \in released : w.result = "data"
    /\ NumResolved(tasks) = 1

\* C17: every step that replaces the snapshot held for display puts the
\* snapshot of the current slot there.
C17_NoStaleDisplay ==
    [][(shownSlot' # shownSlot \/ allBidsData' # allBidsData) =>
            shownSlot' = currentSlot']_vars

\* C18: every step that changes the current slot leaves elapsed at 0 and
\* remaining at 12.0.
C18_SlotChangeResets ==
    [][currentSlot' # currentSlot =>
            (elapsedTime' = 0 /\ timerValue' = FULL_TIMER)]_vars

\* C19: in every state remaining = 12.0 - elapsed.
C19_RemainingIsComplement ==
    timerValue + elapsedTime = FULL_TIMER

\* C20: in every state elapsed is within [0, 12.0]; it is so because
\* remaining is at least 0.1 and elapsed + remaining is at most 12.0.
C20_ElapsedInRange ==
    /\ 0 <= elapsedTime /\ elapsedTime <= FULL_TIMER
    /\ timerValue >= 1
    /\ elapsedTime + timerValue <= FULL_TIMER

\* C20 witness: a tick has brought elapsed to 11.9, the last value before
\* the advance.
C20_Witness ==
    elapsedTime = FULL_TIMER - 1 /\ timerValue = 1 /\ nTick >= 1

\* C21: in every state the pending registry holds exactly the slots whose
\* request is in flight (the mark is there from the step that issues the
\* request to the step in which it settles, with or without a snapshot), and
\* no slot is both pending and cached.
RequestedSlots == {t.slot : t \in {x \in TaskSet : x.kind = "fetch"}}

C21_PendingIffInFlight ==
    /\ pendingFetches = RequestedSlots
    /\ pendingFetches \cap CacheKeys(slotCache) = {}

\* C21 witness: one request has failed and another has succeeded; neither
\* slot is pending any more, while other requests are still in flight.
C21_Witness ==
    /\ nNet = 2
    /\ pendingFetches # {}
    /\ \E s \in CacheKeys(slotCache) : s \in LateInFlight
    /\ \E s \in LateInFlight :
            s \notin CacheKeys(slotCache) /\ s \notin pendingFetches

\* C22: in every state where playback is paused, the interval callback
\* changes nothing: elapsed, remaining, the visible bids, the current slot
\* and the playback flags stay as they are and no request or load is
\* started; so any number of ticks while paused leave the state as it is.
TickEffect == tick(Now)

C22_PausedTickNoOp ==
    ~isPlaying =>
        /\ TickEffect.elapsedTime = elapsedTime
        /\ TickEffect.timerValue = timerValue
        /\ TickEffect.bidsData = bidsData
        /\ TickEffect.allBidsData = allBidsData
        /\ TickEffect.currentSlot = currentSlot
        /\ TickEffect.isPlaying = isPlaying
        /\ TickEffect.isTransitioning = isTransitioning
        /\ TickEffect.tasks = tasks
        /\ TickEffect.pendingFetches = pendingFetches
        /\ TickEffect.slotCache = slotCache
        /\ TickEffect.status = status
        /\ tick(TickEffect) = TickEffect

\* C22 witness: playback was paused with 0.1 s remaining, where the next
\* counted tick would advance the slot, and the interval is still running.
C22_Witness ==
    /\ ~isPlaying /\ ~isTransitioning /\ timerInterval
    /\ timerValue = 1 /\ nTick >= 1 /\ nUser >= 1

\* C23: whenever isTransitioning is true it is eventually false again; and
\* in every state where it is false and the interval runs, the interval
\* callback counts down exactly when playback is not paused.
TicksProcessed ==
    (~isTransitioning /\ timerInterval) =>
        (TickEffect.timerValue # timerValue <=> isPlaying)

C23_AdvanceCompletes ==
    /\ []TicksProcessed
    /\ isTransitioning ~> ~isTransitioning

\* C23 witness: the advance started by the timer had to wait for its slot
\* and has completed.
C23_Witness ==
    /\ ~isTransitioning /\ nUser = 0
    /\ currentSlot = BootSlot + 1
    /\ status.slot = BootSlot + 1 /\ status.text \in {"loaded", "failed"}

\* C24: as long as no fetch of the latest slot has succeeded, the current
\* slot is unset, no advance started by the timer is under way and no slot
\* snapshot is or has been requested.
C24_ClockWaitsForBootstrap ==
    maxAvailableSlot = NULL =>
        /\ currentSlot = NULL
        /\ ~isTransitioning
        /\ pendingFetches = {}
        /\ \A t \in TaskSet : t.kind \notin {"fetch", "wait"}
        /\ slotCache = << >>

=============================================================================
